---- MODULE Spec2Model ----
(***************************************************************************)
(* A model of src/lexer.cpp: the Kaleidoscope tokenizer (gettok), the      *)
(* recursive-descent / precedence-climbing parser, the top-level driver    *)
(* (MainLoop and its handlers) and the expression code generators.         *)
(*                                                                         *)
(* Characters are their ASCII codes, as in the source, where LastChar and  *)
(* CurTok are ints: a token is a negative enum value or the code of a      *)
(* single character.  The input stream is a finite sequence of codes, and  *)
(* getchar() returns EOF for ever once it is exhausted.                    *)
(*                                                                         *)
(* The functions of the source are operators from a machine state (a       *)
(* record of the globals and function-local statics) to the state after    *)
(* the call; a function that returns a value returns [s |-> state,         *)
(* r |-> value].  Their loops are recursive operators.                     *)
(***************************************************************************)
EXTENDS Integers, Sequences, FiniteSets, TLC

VARIABLES
  input,          \* the characters of stdin
  pos,            \* how many of them getchar() has returned
  LastChar,       \* gettok's static LastChar
  IdentifierStr,  \* global IdentifierStr
  NumVal,         \* global NumVal
  CurTok,         \* global CurTok
  BinopPrecedence,\* global std::map<char,int> BinopPrecedence
  out,            \* the lines written to stderr 
  result,         \* what the last parse entry point called by a handler returned
  pc,             \* where main is: "start", "loop", "done"; "lex", "gen", "emitted", "killed" in the unit specifications
  tok,            \* what the last gettok() call returned
  tokStart,       \* observation: how many characters had been read when that token began
  curEnd,         \* observation: the index of the last character of the token in CurTok
  prevEnd,        \* observation: the same for the token CurTok held before
  nerr,           \* observation: how many lines LogError has written
  loopsOK,        \* observation: every loop iteration so far consumed input
  calls,          \* observation: the parse or codegen calls of the last step
  toks,           \* observation: the gettok() calls made so far, in order
  NamedValues,    \* global std::map<std::string, Value*> NamedValues
  built,          \* the instructions created through Builder, in order
  value,          \* what the last codegen() call returned
  Context,        \* global std::unique_ptr<LLVMContext> Context: "null" or "set"
  Builder,        \* global std::unique_ptr<IRBuilder<>> Builder: "null", "set", "inserting"
  LastUnique      \* the counter LLVM takes the suffix of a repeated value name from

vars == <<input, pos, LastChar, IdentifierStr, NumVal, CurTok, BinopPrecedence,
          out, result, pc, tok, tokStart, curEnd, prevEnd, nerr, loopsOK, calls, toks,
          NamedValues, built, value, Context, Builder, LastUnique>>

----------------------------------------------------------------------------
(* Token enum, src/lexer.cpp:24-34, and <cstdio>'s EOF.                     *)
tok_eof == -1
tok_def == -2
tok_extern == -3
tok_identifier == -4
tok_number == -5
EOF == -1

(* <cctype> in the C locale, on the int values getchar() returns.           *)
isspace(c) == c \in {9, 10, 11, 12, 13, 32}
isalpha(c) == c \in (65..90) \cup (97..122)
isdigit(c) == c \in 48..57
isalnum(c) == isalpha(c) \/ isdigit(c)
isascii(c) == c \in 0..127

(* Character codes the source names.                                        *)
chHash == 35
chLParen == 40
chRParen == 41
chStar == 42
chPlus == 43
chComma == 44
chMinus == 45
chDot == 46
chSemi == 59
chLess == 60
chNL == 10
chCR == 13
chSpace == 32

kwDef == <<100, 101, 102>>                      \* "def"
kwExtern == <<101, 120, 116, 101, 114, 110>>    \* "extern"

----------------------------------------------------------------------------
(* The observable measure of unread input: characters getchar() has not    *)
(* returned, the pushback character, and the lookahead token.              *)
Mu(s) ==
  (Len(s.inp) - s.pos) + (IF s.LastChar = EOF THEN 0 ELSE 1)
                       + (IF s.CurTok = tok_eof THEN 0 ELSE 1)

(* One completed iteration of a loop of the source: note whether it        *)
(* consumed input.                                                          *)
LoopIter(before, after) ==
  [after EXCEPT !.loopsOK = @ /\ Mu(after) < Mu(before)]

(* LastChar = getchar();                                                    *)
getchar(s) ==
  IF s.pos < Len(s.inp)
    THEN [s EXCEPT !.pos = @ + 1, !.LastChar = s.inp[s.pos + 1]]
    ELSE [s EXCEPT !.LastChar = EOF]

(* strtod(NumStr, 0) on a string of [0-9.]+: the longest prefix            *)
(* digits [. digits] is converted, the rest ignored.  The value is kept    *)
(* as an exact decimal: integer part and fraction digits without trailing  *)
(* zeros.                                                                   *)
RECURSIVE DigitsValue(_)
DigitsValue(ds) ==
  IF ds = <<>> THEN 0
  ELSE 10 * DigitsValue(SubSeq(ds, 1, Len(ds) - 1)) + (ds[Len(ds)] - 48)

RECURSIVE TrimZeros(_)
TrimZeros(ds) ==
  IF ds # <<>> /\ ds[Len(ds)] = 48 THEN TrimZeros(SubSeq(ds, 1, Len(ds) - 1)) ELSE ds

DotsIn(str) == {i \in 1..Len(str) : str[i] = chDot}

strtod(NumStr) ==
  LET dots == DotsIn(NumStr)
      d1 == IF dots = {} THEN Len(NumStr) + 1
            ELSE CHOOSE i \in dots : \A j \in dots : i <= j
      later == {i \in dots : i > d1}
      d2 == IF later = {} THEN Len(NumStr) + 1
            ELSE CHOOSE i \in later : \A j \in later : i <= j
  IN [ip |-> DigitsValue(SubSeq(NumStr, 1, d1 - 1)),
      fr |-> TrimZeros(SubSeq(NumStr, d1 + 1, d2 - 1))]

----------------------------------------------------------------------------
(* Then(x, F): evaluate the call x once and go on with its value, as the  *)
(* statements after a call go on with what it returned.                     *)
Then(x, F(_)) == CHOOSE y \in {F(v) : v \in {x}} : TRUE

(* gettok, src/lexer.cpp:40-83.                                             *)

(* while (isspace(LastChar)) LastChar = getchar();                          *)
RECURSIVE SkipSpace(_)
SkipSpace(s) ==
  IF isspace(s.LastChar) THEN Then(LoopIter(s, getchar(s)), SkipSpace) ELSE s

(* A variant of the identifier loop that takes letters only.                *)
RECURSIVE IdentLoop_letters(_)
IdentLoop_letters(s) ==
  Then(getchar(s), LAMBDA s1 :
    IF isalpha(s1.LastChar)
      THEN Then(LoopIter(s, [s1 EXCEPT !.IdentifierStr = Append(@, s1.LastChar)]),
                IdentLoop_letters)
      ELSE s1)

(* while (isalnum(LastChar = getchar())) IdentifierStr += LastChar;         *)
RECURSIVE IdentLoop(_)
IdentLoop(s) ==
  Then(getchar(s), LAMBDA s1 :
    IF isalnum(s1.LastChar)
      THEN Then(LoopIter(s, [s1 EXCEPT !.IdentifierStr = Append(@, s1.LastChar)]),
                IdentLoop)
      ELSE s1)

(* The keyword test on the finished IdentifierStr.                          *)
KeywordOrIdentifier(str) ==
  IF str = kwDef THEN tok_def
  ELSE IF str = kwExtern THEN tok_extern
  ELSE tok_identifier

LexIdentifier(s) ==
  Then(IdentLoop([s EXCEPT !.IdentifierStr = <<s.LastChar>>]), LAMBDA s1 :
    [s1 EXCEPT !.tok = KeywordOrIdentifier(s1.IdentifierStr)])

(* do { NumStr += LastChar; LastChar = getchar(); }                         *)
(* while (isdigit(LastChar) || LastChar == '.');                            *)
(* The string NumStr is carried in the field NumStr.                        *)
RECURSIVE NumberLoop(_)
NumberLoop(s) ==
  Then(LoopIter(s, [getchar(s) EXCEPT !.NumStr = Append(@, s.LastChar)]), LAMBDA s1 :
    IF isdigit(s1.LastChar) \/ s1.LastChar = chDot THEN NumberLoop(s1) ELSE s1)

LexNumber(s) ==
  Then(NumberLoop([s EXCEPT !.NumStr = <<>>]), LAMBDA s1 :
    [s1 EXCEPT !.NumVal = strtod(s1.NumStr), !.NumStr = <<>>, !.tok = tok_number])

(* A variant of the comment loop that ends at a newline only.               *)
RECURSIVE SkipComment_newline(_)
SkipComment_newline(s) ==
  Then(LoopIter(s, getchar(s)), LAMBDA s1 :
    IF s1.LastChar # EOF /\ s1.LastChar # chNL
      THEN SkipComment_newline(s1)
      ELSE s1)

(* do LastChar = getchar();                                                 *)
(* while (LastChar != EOF && LastChar != '\n' && LastChar != '\r');         *)
RECURSIVE SkipComment(_)
SkipComment(s) ==
  Then(LoopIter(s, getchar(s)), LAMBDA s1 :
    IF s1.LastChar # EOF /\ s1.LastChar # chNL /\ s1.LastChar # chCR
      THEN SkipComment(s1)
      ELSE s1)

(* A variant of the last case of gettok that reads one character more     *)
(* than the token it returns.                                               *)
LexOther_eager(s) ==
  IF s.LastChar = EOF
    THEN [s EXCEPT !.tok = tok_eof]
    ELSE [getchar(getchar(s)) EXCEPT !.tok = s.LastChar]

(* if (LastChar == EOF) return tok_eof;                                     *)
(* int thisChar = LastChar; LastChar = getchar(); return thisChar;          *)
LexOther(s) ==
  IF s.LastChar = EOF
    THEN [s EXCEPT !.tok = tok_eof]
    ELSE [getchar(s) EXCEPT !.tok = s.LastChar]

RECURSIVE gettok(_)

(* A variant in which a comment ends the token stream.                      *)
LexComment_final(s) ==
  Then(SkipComment(s), LAMBDA s1 : [s1 EXCEPT !.tok = tok_eof])

(* if (LastChar == '#') { ...; if (LastChar != EOF) return gettok(); }      *)
LexComment(s) ==
  Then(SkipComment(s), LAMBDA s1 :
    IF s1.LastChar # EOF THEN gettok(s1) ELSE LexOther(s1))

gettok(s) ==
  Then(SkipSpace(s), LAMBDA s0 :
  Then([s0 EXCEPT !.tokStart = s0.pos], LAMBDA s1 :
    IF isalpha(s1.LastChar) THEN LexIdentifier(s1)
    ELSE IF isdigit(s1.LastChar) \/ s1.LastChar = chDot THEN LexNumber(s1)
    ELSE IF s1.LastChar = chHash THEN LexComment(s1)
    ELSE LexOther(s1)))

----------------------------------------------------------------------------
(* AST nodes, src/lexer.cpp:87-149.  A null unique_ptr is Null.             *)
Null == [kind |-> "null"]
NumberExprAST(Val) == [kind |-> "Number", Val |-> Val]
VariableExprAST(Name) == [kind |-> "Variable", Name |-> Name]
BinaryExprAST(Op, LHS, RHS) == [kind |-> "Binary", Op |-> Op, LHS |-> LHS, RHS |-> RHS]
CallExprAST(Callee, Args) == [kind |-> "Call", Callee |-> Callee, Args |-> Args]
PrototypeAST(Name, Args) == [kind |-> "Prototype", Name |-> Name, Args |-> Args]
FunctionAST(Proto, Body) == [kind |-> "Function", Proto |-> Proto, Body |-> Body]

(* Parser, src/lexer.cpp:152-325.  A function that returns a value         *)
(* returns [s |-> the state after the call, r |-> the value].               *)
TokEnd(t) == IF t.LastChar = EOF THEN t.pos ELSE t.pos - 1

getNextToken(s) ==
  Then(gettok(s), LAMBDA t :
    [t EXCEPT !.CurTok = t.tok, !.prevEnd = t.curEnd, !.curEnd = TokEnd(t)])

(* LogError / LogErrorP: one line on stderr, a null result.                 *)
LogError(s, Str) ==
  [s |-> [s EXCEPT !.out = Append(@, "Error: " \o Str), !.nerr = @ + 1], r |-> Null]

LogErrorP(s, Str) == LogError(s, Str)

Failed(p) == [s |-> p.s, r |-> Null]

(* The record of one call of a parse entry point: whether it returned a   *)
(* non-null result and how many diagnostics were written during it.        *)
Returned(fn, before, res) ==
  [s |-> [res.s EXCEPT !.calls = Append(@, [fn |-> fn, ok |-> res.r # Null,
                                            nerr |-> res.s.nerr - before.nerr])],
   r |-> res.r]

ParseNumberExpr(s) ==
  [s |-> getNextToken(s), r |-> NumberExprAST(s.NumVal)]

(* static std::map<char,int> BinopPrecedence, filled by main,              *)
(* src/lexer.cpp:428-431.                                                   *)
MainBinopPrecedence ==
  (chLess :> 10) @@ (chPlus :> 20) @@ (chMinus :> 20) @@ (chStar :> 40)

(* m[key] of a std::map: operator[] inserts a value-initialised element   *)
(* (zero, a null pointer) for a key that is absent.                         *)
Subscript(m, key, zero) == IF key \in DOMAIN m THEN m ELSE m @@ (key :> zero)

GetTokPrecedence(s) ==
  IF ~isascii(s.CurTok) THEN [s |-> s, r |-> -1]
  ELSE Then(Subscript(s.BinopPrecedence, s.CurTok, 0), LAMBDA m :
         [s |-> [s EXCEPT !.BinopPrecedence = m],
          r |-> IF m[s.CurTok] <= 0 THEN -1 ELSE m[s.CurTok]])

(* A variant with the comparison turned round.                              *)
AbsorbsNext_reversed(TokPrec, nextPrec) == TokPrec > nextPrec

(* if (TokPrec < nextPrec): the pending operator is absorbed into RHS.      *)
AbsorbsNext(TokPrec, nextPrec) == TokPrec < nextPrec

RECURSIVE ParseExpression(_)
RECURSIVE ParsePrimary(_)
RECURSIVE ParseBinOpRHS(_, _, _)
RECURSIVE ParseArgs(_, _)

(* A variant that writes a diagnostic of its own when the inner            *)
(* expression has failed.                                                   *)
ParseParenExpr_relog(s) ==
  Then(getNextToken(s), LAMBDA s1 :
  Then(ParseExpression(s1), LAMBDA V :
    IF V.r = Null \/ V.s.CurTok # chRParen THEN LogError(V.s, "expected ')'")
    ELSE [s |-> getNextToken(V.s), r |-> V.r]))

ParseParenExpr(s) ==
  Then(getNextToken(s), LAMBDA s1 :
  Then(ParseExpression(s1), LAMBDA V :
    IF V.r = Null THEN Failed(V)
    ELSE IF V.s.CurTok # chRParen THEN LogError(V.s, "expected ')'")
    ELSE [s |-> getNextToken(V.s), r |-> V.r]))

(* The while (true) loop of ParseIdentifierExpr, src/lexer.cpp:197-209;    *)
(* ok tells a break from a return inside the loop.                          *)
ParseArgs(s, Args) ==
  Then(ParseExpression(s), LAMBDA Arg :
    IF Arg.r = Null THEN [s |-> Arg.s, r |-> Null, ok |-> FALSE]
    ELSE IF Arg.s.CurTok = chRParen
      THEN [s |-> Arg.s, r |-> Append(Args, Arg.r), ok |-> TRUE]
    ELSE IF Arg.s.CurTok # chComma
      THEN [s |-> LogError(Arg.s, "Expected ')' or ',' in argument list").s,
            r |-> Null, ok |-> FALSE]
    ELSE Then(LoopIter(s, getNextToken(Arg.s)), LAMBDA s1 :
         Then(Append(Args, Arg.r), LAMBDA Args1 : ParseArgs(s1, Args1))))

ParseIdentifierExpr(s) ==
  Then(getNextToken(s), LAMBDA s1 :
    IF s1.CurTok # chLParen THEN [s |-> s1, r |-> VariableExprAST(s.IdentifierStr)]
    ELSE Then(getNextToken(s1), LAMBDA s2 :
         Then(IF s2.CurTok # chRParen THEN ParseArgs(s2, <<>>)
              ELSE [s |-> s2, r |-> <<>>, ok |-> TRUE], LAMBDA a :
           IF ~a.ok THEN Failed(a)
           ELSE [s |-> getNextToken(a.s), r |-> CallExprAST(s.IdentifierStr, a.r)])))

ParsePrimary(s) ==
  IF s.CurTok = tok_identifier THEN ParseIdentifierExpr(s)
  ELSE IF s.CurTok = tok_number THEN ParseNumberExpr(s)
  ELSE IF s.CurTok = chLParen THEN ParseParenExpr(s)
  ELSE LogError(s, "unknown token when expecting an expression.")

(* One pass through the while (true) of ParseBinOpRHS ends in the call for *)
(* the next pass.                                                           *)
ParseBinOpRHS(ExprPrec, s, LHS) ==
  Then(GetTokPrecedence(s), LAMBDA g :
    IF g.r < ExprPrec THEN [s |-> g.s, r |-> LHS]
    ELSE Then(getNextToken(g.s), LAMBDA s1 :
         Then(ParsePrimary(s1), LAMBDA P :
           IF P.r = Null THEN Failed(P)
           ELSE Then(GetTokPrecedence(P.s), LAMBDA n :
                Then(IF AbsorbsNext(g.r, n.r) THEN ParseBinOpRHS(g.r + 1, n.s, P.r)
                     ELSE [s |-> n.s, r |-> P.r], LAMBDA RHS :
                  IF RHS.r = Null THEN Failed(RHS)
                  ELSE Then(LoopIter(s, RHS.s), LAMBDA s2 :
                       Then(BinaryExprAST(g.s.CurTok, LHS, RHS.r), LAMBDA LHS1 :
                         ParseBinOpRHS(ExprPrec, s2, LHS1))))))))

ParseExpression(s) ==
  Then(ParsePrimary(s), LAMBDA LHS :
    Returned("ParseExpression", s,
             IF LHS.r = Null THEN Failed(LHS) ELSE ParseBinOpRHS(0, LHS.s, LHS.r)))

(* while (getNextToken() == tok_identifier) ArgNames.push_back(...);        *)
RECURSIVE ProtoArgs(_, _)
ProtoArgs(s, ArgNames) ==
  Then(getNextToken(s), LAMBDA s1 :
    IF s1.CurTok = tok_identifier
      THEN Then(LoopIter(s, s1), LAMBDA s2 :
           Then(Append(ArgNames, s1.IdentifierStr), LAMBDA ArgNames1 :
             ProtoArgs(s2, ArgNames1)))
      ELSE [s |-> s1, r |-> ArgNames])

ParsePrototype(s) ==
  Returned("ParsePrototype", s,
    IF s.CurTok # tok_identifier
      THEN LogErrorP(s, "Expected function name in prototype.")
    ELSE Then(getNextToken(s), LAMBDA s1 :
           IF s1.CurTok # chLParen THEN LogErrorP(s1, "Expected '(' in prototype.")
           ELSE Then(ProtoArgs(s1, <<>>), LAMBDA a :
                  IF a.s.CurTok # chRParen
                    THEN LogErrorP(a.s, "Expected ')' in prototype.")
                  ELSE [s |-> getNextToken(a.s),
                        r |-> PrototypeAST(s.IdentifierStr, a.r)])))

ParseDefinition(s) ==
  Then(getNextToken(s), LAMBDA s1 :
  Then(ParsePrototype(s1), LAMBDA Proto :
    Returned("ParseDefinition", s,
      IF Proto.r = Null THEN Failed(Proto)
      ELSE Then(ParseExpression(Proto.s), LAMBDA E :
             IF E.r # Null THEN [s |-> E.s, r |-> FunctionAST(Proto.r, E.r)]
             ELSE Failed(E)))))

ParseExtern(s) ==
  Then(getNextToken(s), LAMBDA s1 :
    Returned("ParseExtern", s, ParsePrototype(s1)))

ParseTopLevelExpr(s) ==
  Then(ParseExpression(s), LAMBDA E :
    Returned("ParseTopLevelExpr", s,
      IF E.r # Null
        THEN [s |-> E.s, r |-> FunctionAST(PrototypeAST(<<>>, <<>>), E.r)]
        ELSE Failed(E)))

----------------------------------------------------------------------------
(* Top-level handlers and driver, src/lexer.cpp:327-378.  The value the   *)
(* handler's parse call returned is kept in the field result.              *)
fprintf(s, line) == [s EXCEPT !.out = Append(@, line)]

HandleDefinition(s) ==
  Then(ParseDefinition(s), LAMBDA p :
    IF p.r # Null
      THEN [fprintf(p.s, "Parsed a function definition.") EXCEPT !.result = p.r]
      ELSE [getNextToken(p.s) EXCEPT !.result = Null])

HandleExtern(s) ==
  Then(ParseExtern(s), LAMBDA p :
    IF p.r # Null
      THEN [fprintf(p.s, "Parsed an extern") EXCEPT !.result = p.r]
      ELSE [getNextToken(p.s) EXCEPT !.result = Null])

(* A variant without the token skip for error recovery.                     *)
HandleTopLevelExpression_noskip(s) ==
  Then(ParseTopLevelExpr(s), LAMBDA p :
    IF p.r # Null
      THEN [fprintf(p.s, "Parsed a top-level expr") EXCEPT !.result = p.r]
      ELSE [p.s EXCEPT !.result = Null])

HandleTopLevelExpression(s) ==
  Then(ParseTopLevelExpr(s), LAMBDA p :
    IF p.r # Null
      THEN [fprintf(p.s, "Parsed a top-level expr") EXCEPT !.result = p.r]
      ELSE [getNextToken(p.s) EXCEPT !.result = Null])

----------------------------------------------------------------------------
(* Code generation, src/lexer.cpp:381-423.  A Value* is a record and a     *)
(* null Value* is Null.  The state of a call holds, besides the globals,   *)
(* the instructions inserted through Builder (built), the name counter of  *)
(* the function they are inserted in (LastUnique), the number of           *)
(* instructions created, inserted or not (created), whether the process    *)
(* has been killed (crashed) and what undefined behaviour does in this run *)
(* (ub).                                                                    *)
LogErrorV(s, Str) == [s |-> LogError(s, Str).s, r |-> Null]

(* *Context and Builder-> on a unique_ptr the source never assigns         *)
(* (src/lexer.cpp:381-382) are undefined behaviour.  The run then does one *)
(* of: the process is killed by a signal; the call returns a null Value*   *)
(* without effect; the call goes on as with a valid pointer.                *)
UBOutcomes == {"killed", "null", "valid"}

Valid(s, ptr) == ptr # "null" \/ s.ub = "valid"

Undefined(s) ==
  IF s.ub = "killed" THEN [s |-> [s EXCEPT !.crashed = TRUE], r |-> Null]
  ELSE [s |-> s, r |-> Null]

(* A double has a category cat.  A "finite" one is (-1)^neg * mant * 2^exp, *)
(* where mant is the bits of an odd natural number of at most 53 bits,     *)
(* least significant bit first, and exp >= -1074 with the value below      *)
(* 2^1024; zero is mant = <<>> with exp = 0.  The others are the           *)
(* infinities ("inf", with neg) and the quiet NaN APFloat makes for an     *)
(* invalid operation ("nan").  Arithmetic is IEEE 754 binary64 with        *)
(* round-to-nearest-even, as APFloat computes it.                           *)
(* Natural numbers wider than a machine word are sequences of bits, least  *)
(* significant first, with no zero at the most significant end.             *)
RECURSIVE Pow10(_)
Pow10(k) == IF k = 0 THEN 1 ELSE 10 * Pow10(k - 1)

Max(a, b) == IF a > b THEN a ELSE b

RECURSIVE Pow2(_)
Pow2(k) == IF k = 0 THEN 1 ELSE 2 * Pow2(k - 1)

RECURSIVE Bits(_)
Bits(n) == IF n = 0 THEN <<>> ELSE <<n % 2>> \o Bits(n \div 2)

Zeros(k) == [i \in 1..k |-> 0]
Shl(a, k) == IF a = <<>> THEN <<>> ELSE Zeros(k) \o a
Bit(a, i) == IF i <= Len(a) THEN a[i] ELSE 0
Highest(a) == CHOOSE i \in 1..Len(a) : a[i] = 1 /\ \A j \in (i + 1)..Len(a) : a[j] = 0
Lowest(a) == CHOOSE i \in 1..Len(a) : a[i] = 1 /\ \A j \in 1..(i - 1) : a[j] = 0
IsZero(a) == \A i \in 1..Len(a) : a[i] = 0
Trim(a) == IF IsZero(a) THEN <<>> ELSE SubSeq(a, 1, Highest(a))

(* The same number in digits of w bits each, and back.                      *)
RECURSIVE DigitAt(_, _, _)
DigitAt(a, i, w) == IF w = 0 THEN 0 ELSE Bit(a, i) + 2 * DigitAt(a, i + 1, w - 1)

Digits(a, w) == [j \in 1..((Len(a) + w - 1) \div w) |-> DigitAt(a, w * (j - 1) + 1, w)]
FromDigits(l, w) ==
  Trim([i \in 1..(w * Len(l)) |-> (l[((i - 1) \div w) + 1] \div Pow2((i - 1) % w)) % 2])

Digit(l, i) == IF i <= Len(l) THEN l[i] ELSE 0

RECURSIVE AddFrom(_, _, _, _)
AddFrom(a, b, i, c) ==
  IF i > Max(Len(a), Len(b)) THEN <<c>>
  ELSE <<(Digit(a, i) + Digit(b, i) + c) % 1024>>
         \o AddFrom(a, b, i + 1, (Digit(a, i) + Digit(b, i) + c) \div 1024)

BAdd(a, b) == FromDigits(AddFrom(Digits(a, 10), Digits(b, 10), 1, 0), 10)

(* a - b for a >= b.                                                        *)
RECURSIVE SubFrom(_, _, _, _)
SubFrom(a, b, i, c) ==
  IF i > Len(a) THEN <<>>
  ELSE <<(Digit(a, i) + 1024 - Digit(b, i) - c) % 1024>>
         \o SubFrom(a, b, i + 1, IF Digit(a, i) < Digit(b, i) + c THEN 1 ELSE 0)

BSub(a, b) == FromDigits(SubFrom(Digits(a, 10), Digits(b, 10), 1, 0), 10)

BLess(a, b) ==
  IF Len(a) # Len(b) THEN Len(a) < Len(b)
  ELSE \E i \in 1..Len(a) : a[i] < b[i] /\ \A j \in (i + 1)..Len(a) : a[j] = b[j]

RECURSIVE MulDigit(_, _, _, _)
MulDigit(a, d, i, c) ==
  IF i > Len(a) THEN <<c>>
  ELSE <<(a[i] * d + c) % 1024>> \o MulDigit(a, d, i + 1, (a[i] * d + c) \div 1024)

RECURSIVE MulFrom(_, _, _)
MulFrom(a, b, j) ==
  IF j > Len(b) THEN <<>>
  ELSE AddFrom(MulDigit(a, b[j], 1, 0), <<0>> \o MulFrom(a, b, j + 1), 1, 0)

BMul(a, b) == FromDigits(MulFrom(Digits(a, 10), Digits(b, 10), 1), 10)

(* Quotient and remainder of a number by the machine word D, digit by      *)
(* digit from the most significant.                                         *)
RECURSIVE DivFrom(_, _, _, _, _)
DivFrom(a, D, i, r, q) ==
  IF i = 0 THEN [q |-> q, r |-> r]
  ELSE DivFrom(a, D, i - 1, (16 * r + a[i]) % D,
               <<(16 * r + a[i]) \div D>> \o q)

BDiv(a, D) ==
  Then(DivFrom(Digits(a, 4), D, Len(Digits(a, 4)), 0, <<>>), LAMBDA h :
    [q |-> FromDigits(h.q, 4), r |-> h.r])

Infinity(neg) == [cat |-> "inf", neg |-> neg, mant |-> <<>>, exp |-> 0]
NaN == [cat |-> "nan", neg |-> FALSE, mant |-> <<>>, exp |-> 0]

(* The double of sign neg and value m * 2^e in lowest terms.                *)
Odd(neg, m, e) ==
  IF IsZero(m) THEN [cat |-> "finite", neg |-> neg, mant |-> <<>>, exp |-> 0]
  ELSE [cat |-> "finite", neg |-> neg, mant |-> SubSeq(m, Lowest(m), Highest(m)),
        exp |-> e + Lowest(m) - 1]

(* A rounded value of 2^1024 or more overflows to infinity.                 *)
InRange(neg, m, e) ==
  IF ~IsZero(m) /\ e + Highest(m) - 1 >= 1024 THEN Infinity(neg) ELSE Odd(neg, m, e)

(* The double nearest to (q + f) * 2^e, where 0 <= f < 1 and sticky tells  *)
(* whether f > 0 (only when bits of q are dropped).  The bits kept are the *)
(* 53 leading bits of q, or fewer when they reach down to 2^-1074 (a       *)
(* subnormal, or zero); the value is rounded up when what is dropped is    *)
(* more than half a unit, or half a unit and the last kept bit is 1.        *)
Round53(neg, q, e, sticky) ==
  Then(Max(Len(Trim(q)) - 53, (0 - 1074) - e), LAMBDA d :
    IF d <= 0 THEN InRange(neg, q, e)
    ELSE Then(SubSeq(Trim(q), d + 1, Len(Trim(q))), LAMBDA top :
      IF Bit(q, d) = 1 /\ (sticky \/ Bit(top, 1) = 1 \/ \E i \in 1..(d - 1) : Bit(q, i) = 1)
        THEN InRange(neg, BAdd(top, <<1>>), e + d)
        ELSE InRange(neg, top, e + d)))

(* The double of the decimal N / D, as strtod rounds it: N * 2^k / D is     *)
(* taken with k large enough for the quotient to have more than 53 bits.    *)
NearestDouble(N, D) ==
  Then(Max(0, 55 + Len(Bits(D)) - Len(Bits(N))), LAMBDA k :
  Then(BDiv(Shl(Bits(N), k), D), LAMBDA h :
    Round53(FALSE, h.q, 0 - k, h.r # 0)))

(* APFloat(Val) of the double strtod returned for the digits ip.fr.         *)
APFloat(Val) ==
  NearestDouble(Val.ip * Pow10(Len(Val.fr)) + DigitsValue(Val.fr), Pow10(Len(Val.fr)))

(* The magnitudes of two finite doubles as whole multiples of one power of *)
(* two.                                                                     *)
AlignExp(a, b) ==
  IF a.mant = <<>> THEN b.exp ELSE IF b.mant = <<>> THEN a.exp
  ELSE IF a.exp < b.exp THEN a.exp ELSE b.exp

Aligned(a, b) ==
  Then(AlignExp(a, b), LAMBDA e :
    [a |-> Shl(a.mant, a.exp - e), b |-> Shl(b.mant, b.exp - e), exp |-> e])

(* The exponent of the leading bit of a finite double that is not zero.     *)
Top(a) == a.exp + Len(a.mant) - 1

(* b is less than a quarter of the unit in the last place of a: a + b and  *)
(* a - b round to a.                                                        *)
Negligible(a, b) ==
  a.mant # <<>> /\ b.mant # <<>> /\ Top(b) < Max(Top(a) - 52, 0 - 1074) - 2

fadd(a, b) ==
  IF a.cat = "nan" \/ b.cat = "nan" THEN NaN
  ELSE IF a.cat = "inf" THEN (IF b.cat = "inf" /\ a.neg # b.neg THEN NaN ELSE a)
  ELSE IF b.cat = "inf" THEN b
  ELSE IF Negligible(a, b) THEN a
  ELSE IF Negligible(b, a) THEN b
  ELSE
  Then(Aligned(a, b), LAMBDA m :
    IF a.neg = b.neg THEN Round53(a.neg, BAdd(m.a, m.b), m.exp, FALSE)
    ELSE IF m.a = m.b THEN Odd(FALSE, <<>>, 0)
    ELSE IF BLess(m.a, m.b) THEN Round53(b.neg, BSub(m.b, m.a), m.exp, FALSE)
    ELSE Round53(a.neg, BSub(m.a, m.b), m.exp, FALSE))

fneg(a) == [a EXCEPT !.neg = ~@]
fsub(a, b) == fadd(a, fneg(b))

fmul(a, b) ==
  IF a.cat = "nan" \/ b.cat = "nan" THEN NaN
  ELSE IF a.cat = "inf" \/ b.cat = "inf"
    THEN (IF (a.cat = "finite" /\ a.mant = <<>>) \/ (b.cat = "finite" /\ b.mant = <<>>)
            THEN NaN ELSE Infinity(a.neg # b.neg))
  ELSE Round53(a.neg # b.neg, BMul(a.mant, b.mant), a.exp + b.exp, FALSE)

(* |a| < |b| for finite doubles that are not zero.                          *)
MagLess(a, b) ==
  IF Top(a) # Top(b) THEN Top(a) < Top(b)
  ELSE Then(Aligned(a, b), LAMBDA m : BLess(m.a, m.b))

(* a < b for doubles that are not NaN.                                      *)
Less(a, b) ==
  IF a.cat = "inf" THEN a.neg /\ ~(b.cat = "inf" /\ b.neg)
  ELSE IF b.cat = "inf" THEN ~b.neg
  ELSE IF a.mant = <<>> THEN b.mant # <<>> /\ ~b.neg
  ELSE IF b.mant = <<>> THEN a.neg
  ELSE IF a.neg # b.neg THEN a.neg
  ELSE IF a.neg THEN MagLess(b, a)
  ELSE MagLess(a, b)

(* fcmp ult: unordered (an operand is NaN) or less than.                    *)
fcmp_ult(a, b) == a.cat = "nan" \/ b.cat = "nan" \/ Less(a, b)

ConstantFP(Val) == [kind |-> "ConstantFP", Val |-> Val]
ConstantInt(Val) == [kind |-> "ConstantInt", Val |-> Val]
IsConstant(V) == V.kind \in {"ConstantFP", "ConstantInt"}

(* ConstandFP::get of the context and APFloat(Val), src/lexer.cpp:392.     *)
ConstantFP_get(s, Val) ==
  IF Valid(s, s.Context) THEN [s |-> s, r |-> ConstantFP(APFloat(Val))] ELSE Undefined(s)

(* The names given to instructions, as the characters of the literals.      *)
addtmp == <<97, 100, 100, 116, 109, 112>>
subtmp == <<115, 117, 98, 116, 109, 112>>
multmp == <<109, 117, 108, 116, 109, 112>>
cmptmp == <<99, 109, 112, 116, 109, 112>>
booltmp == <<98, 111, 111, 108, 116, 109, 112>>

(* Builder inserts at its insertion point.  A Builder that has none        *)
(* ("set") creates the instruction and inserts it nowhere: it keeps the    *)
(* name it is given.  A Builder whose insertion point is in a function     *)
(* ("inserting") appends the instruction there, and the function's symbol  *)
(* table makes its name unique: the names taken are those of the           *)
(* function's arguments, which are the arguments NamedValues binds, and of *)
(* the instructions inserted before; a name that is taken gets the next    *)
(* values of the table's counter appended until it is free (addtmp,        *)
(* addtmp1, ...).                                                           *)
Inserting(s) == s.Builder # "set"

ArgumentNames(s) ==
  {s.NamedValues[n].Name : n \in {m \in DOMAIN s.NamedValues : s.NamedValues[m] # Null}}

UsedNames(s) == {s.built[i].name : i \in 1..Len(s.built)} \cup ArgumentNames(s)

RECURSIVE Decimal(_)
Decimal(n) == IF n < 10 THEN <<48 + n>> ELSE Decimal(n \div 10) \o <<48 + (n % 10)>>

RECURSIVE UniqueName(_, _, _)
UniqueName(used, base, last) ==
  IF base \o Decimal(last + 1) \in used
    THEN UniqueName(used, base, last + 1)
    ELSE [name |-> base \o Decimal(last + 1), last |-> last + 1]

Create(s, inst) ==
  IF ~Inserting(s)
    THEN [s |-> [s EXCEPT !.created = @ + 1], r |-> inst]
  ELSE IF inst.name \in UsedNames(s)
    THEN Then(UniqueName(UsedNames(s), inst.name, s.LastUnique), LAMBDA u :
         Then([inst EXCEPT !.name = u.name], LAMBDA named :
           [s |-> [s EXCEPT !.built = Append(@, named), !.LastUnique = u.last,
                            !.created = @ + 1],
            r |-> named]))
    ELSE [s |-> [s EXCEPT !.built = Append(@, inst), !.created = @ + 1], r |-> inst]

(* Builder->Create...(L, R, Name): the IRBuilder's constant folder returns *)
(* a constant, and creates nothing, when every operand is a constant.       *)
CreateFAdd(s, L, R, Name) ==
  IF ~Valid(s, s.Builder) THEN Undefined(s)
  ELSE IF IsConstant(L) /\ IsConstant(R)
    THEN [s |-> s, r |-> ConstantFP(fadd(L.Val, R.Val))]
  ELSE Create(s, [kind |-> "fadd", L |-> L, R |-> R, name |-> Name])

CreateFSub(s, L, R, Name) ==
  IF ~Valid(s, s.Builder) THEN Undefined(s)
  ELSE IF IsConstant(L) /\ IsConstant(R)
    THEN [s |-> s, r |-> ConstantFP(fsub(L.Val, R.Val))]
  ELSE Create(s, [kind |-> "fsub", L |-> L, R |-> R, name |-> Name])

CreateFMul(s, L, R, Name) ==
  IF ~Valid(s, s.Builder) THEN Undefined(s)
  ELSE IF IsConstant(L) /\ IsConstant(R)
    THEN [s |-> s, r |-> ConstantFP(fmul(L.Val, R.Val))]
  ELSE Create(s, [kind |-> "fmul", L |-> L, R |-> R, name |-> Name])

CreateFCmpULT(s, L, R, Name) ==
  IF ~Valid(s, s.Builder) THEN Undefined(s)
  ELSE IF IsConstant(L) /\ IsConstant(R)
    THEN [s |-> s, r |-> ConstantInt(IF fcmp_ult(L.Val, R.Val) THEN 1 ELSE 0)]
  ELSE Create(s, [kind |-> "fcmp ult", L |-> L, R |-> R, name |-> Name])

(* Builder->CreateUIToFP, with the double type got from the context.        *)
CreateUIToFP(s, V, Name) ==
  IF ~(Valid(s, s.Builder) /\ Valid(s, s.Context)) THEN Undefined(s)
  ELSE IF IsConstant(V)
    THEN [s |-> s, r |-> ConstantFP(Odd(FALSE, Bits(V.Val), 0))]
  ELSE Create(s, [kind |-> "uitofp", L |-> V, R |-> Null, name |-> Name])

(* The record of one codegen call that returned: the node, the symbol      *)
(* table before and after it, what its operands returned, what it          *)
(* returned, how many instructions it created itself (after its operands   *)
(* were emitted, in state mid) and how many diagnostics were written       *)
(* during it.  A call the process was killed in does not return.            *)
Emitted(fn, e, before, L, R, mid, res) ==
  IF res.s.crashed THEN res
  ELSE
  [s |-> [res.s EXCEPT !.calls = Append(@,
            [fn |-> fn, e |-> e, before |-> before.NamedValues,
             after |-> res.s.NamedValues, L |-> L, R |-> R, r |-> res.r,
             made |-> res.s.created - mid.created,
             nerr |-> res.s.nerr - before.nerr])],
   r |-> res.r]

NumberExprAST_codegen(s, e) ==
  Emitted("NumberExprAST::codegen", e, s, Null, Null, s, ConstantFP_get(s, e.Val))

(* Value *V = NamedValues[Name]; if (!V) LogErrorV(...); return V;          *)
VariableExprAST_codegen(s, e) ==
  Then(Subscript(s.NamedValues, e.Name, Null), LAMBDA m :
  Then([s EXCEPT !.NamedValues = m], LAMBDA s1 :
    Emitted("VariableExprAST::codegen", e, s, Null, Null, s1,
      IF m[e.Name] = Null
        THEN [s |-> LogErrorV(s1, "Unknown variable name").s, r |-> m[e.Name]]
        ELSE [s |-> s1, r |-> m[e.Name]])))

(* if (!L || !R) return nullptr;                                            *)
EitherNull(L, R) == L = Null \/ R = Null

RECURSIVE codegen(_, _)

BinaryExprAST_codegen(s, e) ==
  Then(codegen(s, e.LHS), LAMBDA L :
    IF L.s.crashed THEN L ELSE
  Then(codegen(L.s, e.RHS), LAMBDA R :
    IF R.s.crashed THEN R ELSE
    Emitted("BinaryExprAST::codegen", e, s, L.r, R.r, R.s,
      IF EitherNull(L.r, R.r) THEN [s |-> R.s, r |-> Null]
      ELSE IF e.Op = chPlus THEN CreateFAdd(R.s, L.r, R.r, addtmp)
      ELSE IF e.Op = chMinus THEN CreateFSub(R.s, L.r, R.r, subtmp)
      ELSE IF e.Op = chStar THEN CreateFMul(R.s, L.r, R.r, multmp)
      ELSE IF e.Op = chLess
        THEN Then(CreateFCmpULT(R.s, L.r, R.r, cmptmp), LAMBDA c :
               IF c.s.crashed THEN c ELSE CreateUIToFP(c.s, c.r, booltmp))
      ELSE LogErrorV(R.s, "invalid binary operator"))))

(* The virtual call e->codegen().                                           *)
codegen(s, e) ==
  IF e.kind = "Number" THEN NumberExprAST_codegen(s, e)
  ELSE IF e.kind = "Variable" THEN VariableExprAST_codegen(s, e)
  ELSE BinaryExprAST_codegen(s, e)

----------------------------------------------------------------------------
(* Bounds of the model and the inputs drawn within them.                    *)
MaxOps == 3        \* operators in a generated expression p0 op1 p1 ... opN pN
MaxFrags == 3      \* fragments in a generated source text
MaxLexFrags == 4   \* fragments in a generated text for the tokenizer alone
MaxCalls == 6      \* gettok() calls observed in the tokenizer specification
MaxGenOps == 2     \* binary operators in a tree handed to codegen()

RECURSIVE Concats(_, _)
Concats(Frags, n) ==
  IF n = 0 THEN {<<>>}
  ELSE LET prev == Concats(Frags, n - 1)
       IN prev \cup {p \o f : p \in prev, f \in Frags}

(* p0 op1 p1 ... opN pN, the primaries alternately a digit and a letter.    *)
Operators == {chLess, chPlus, chMinus, chStar}
Primary(i) == IF i % 2 = 0 THEN <<49 + i>> ELSE <<97 + i>>

RECURSIVE ExprText(_, _)
ExprText(ops, n) ==
  IF n = 0 THEN Primary(0)
  ELSE ExprText(ops, n - 1) \o <<chSpace, ops[n], chSpace>> \o Primary(n)

ExprInputs ==
  UNION {{ExprText(ops, n) : ops \in [1..n -> Operators]} : n \in 0..MaxOps}

(* Source texts: up to MaxFrags fragments, alone or followed on the next   *)
(* line by a well-formed definition.                                        *)
SrcFrags ==
  { <<100, 101, 102, 32>>,                    \* "def "
    <<101, 120, 116, 101, 114, 110, 32>>,     \* "extern "
    <<97>>, <<49>>,                           \* "a" "1"
    <<chLParen>>, <<chRParen>>, <<chComma>>, <<chPlus>>, <<chSemi>>,
    <<chHash, 99, chNL>> }                    \* "#c\n"

GoodDef == <<100, 101, 102, 32, 98, 40, 120, 41, 32, 120, 43, 49>>   \* "def b(x) x+1"

SrcInputs ==
  {f \o t : f \in Concats(SrcFrags, MaxFrags),
            t \in {<<>>, <<chNL>> \o GoodDef}}

Inputs == ExprInputs \cup SrcInputs

LexFrags ==
  { kwDef, kwExtern, <<120, 49>>,             \* "def" "extern" "x1"
    <<49, chDot>>,                            \* "1."
    <<chHash, 100>>,                          \* "#d"
    <<chNL>>, <<chCR>>, <<chSpace>>, <<chPlus>> }

LexInputs == Concats(LexFrags, MaxLexFrags)

(* Expression trees for codegen(): the numbers 1 and 1.5 and the          *)
(* variables x and addtmp under the four operators of the switch and one   *)
(* operator outside it, '/'.  A call node is left out: the source defines  *)
(* no CallExprAST::codegen.                                                 *)
GenOps == Operators \cup {47}
Leaves ==
  { NumberExprAST([ip |-> 1, fr |-> <<>>]), NumberExprAST([ip |-> 1, fr |-> <<53>>]),
    VariableExprAST(<<120>>), VariableExprAST(addtmp) }

RECURSIVE Trees(_)
Trees(n) ==
  IF n = 0 THEN Leaves
  ELSE UNION {{BinaryExprAST(op, l, r) : op \in GenOps, l \in Trees(i), r \in Trees(n - 1 - i)}
              : i \in 0..(n - 1)}

GenTrees(n) == UNION {Trees(k) : k \in 0..n}

(* The symbol table when codegen() is called: empty, as the source leaves  *)
(* it, or with the arguments of the function being emitted bound by the    *)
(* caller: x, or x and addtmp.                                              *)
NoNames == [n \in {} |-> Null]
Argument(Name) == [kind |-> "Argument", Name |-> Name]
GenTables ==
  { NoNames, (<<120>> :> Argument(<<120>>)),
    (<<120>> :> Argument(<<120>>)) @@ (addtmp :> Argument(addtmp)) }

----------------------------------------------------------------------------
(* The machine state as one record, and back.                               *)
State ==
  [inp |-> input, pos |-> pos, LastChar |-> LastChar, IdentifierStr |-> IdentifierStr,
   NumVal |-> NumVal, CurTok |-> CurTok, BinopPrecedence |-> BinopPrecedence,
   out |-> out, result |-> result, tok |-> tok, tokStart |-> tokStart,
   curEnd |-> curEnd, prevEnd |-> prevEnd,
   nerr |-> nerr, loopsOK |-> loopsOK, calls |-> <<>>, NumStr |-> <<>>]

Becomes(s) ==
  /\ input' = s.inp
  /\ pos' = s.pos
  /\ LastChar' = s.LastChar
  /\ IdentifierStr' = s.IdentifierStr
  /\ NumVal' = s.NumVal
  /\ CurTok' = s.CurTok
  /\ BinopPrecedence' = s.BinopPrecedence
  /\ out' = s.out
  /\ result' = s.result
  /\ tok' = s.tok
  /\ tokStart' = s.tokStart
  /\ curEnd' = s.curEnd
  /\ prevEnd' = s.prevEnd
  /\ nerr' = s.nerr
  /\ loopsOK' = s.loopsOK
  /\ calls' = s.calls

(* The statics and globals as the program starts: LastChar = ' ', the      *)
(* rest zero or empty.                                                      *)
Start(texts, at) ==
  /\ input \in texts
  /\ pos = 0
  /\ LastChar = chSpace
  /\ IdentifierStr = <<>>
  /\ NumVal = [ip |-> 0, fr |-> <<>>]
  /\ CurTok = 0
  /\ BinopPrecedence = [c \in {} |-> 0]
  /\ out = <<>>
  /\ pc = at
  /\ tok = 0
  /\ tokStart = 0
  /\ curEnd = 0
  /\ prevEnd = 0
  /\ nerr = 0
  /\ loopsOK = TRUE
  /\ calls = <<>>
  /\ toks = <<>>

(* The tree the parser has returned, and the globals of code generation:   *)
(* the source leaves NamedValues empty and Context and Builder null         *)
(* (src/lexer.cpp:381-384, never assigned).                                 *)
StartCodegen(trees, tables, contexts, builders) ==
  /\ result \in trees
  /\ NamedValues \in tables
  /\ built = <<>>
  /\ value = Null
  /\ Context \in contexts
  /\ Builder \in builders
  /\ LastUnique = 0

Init == Start(Inputs, "start") /\ StartCodegen({Null}, {NoNames}, {"null"}, {"null"})

(* main, src/lexer.cpp:427-434, up to the call of MainLoop.                 *)
Main ==
  /\ pc = "start"
  /\ \E s \in {fprintf([State EXCEPT !.BinopPrecedence = MainBinopPrecedence], "ready> ")} :
       \E s1 \in {getNextToken(s)} : Becomes(s1)
  /\ pc' = "loop"
  /\ UNCHANGED <<toks, NamedValues, built, value, Context, Builder, LastUnique>>

(* One iteration of MainLoop's while (true), src/lexer.cpp:359-377.         *)
LoopEof ==
  /\ pc = "loop" /\ CurTok = tok_eof
  /\ \E s \in {fprintf(State, "ready> ")} : Becomes(s)
  /\ pc' = "done"
  /\ UNCHANGED <<toks, NamedValues, built, value, Context, Builder, LastUnique>>

LoopSemicolon ==
  /\ pc = "loop" /\ CurTok = chSemi
  /\ \E s \in {fprintf(State, "ready> ")} :
       \E s1 \in {getNextToken(s)} : Becomes(s1)
  /\ UNCHANGED <<pc, toks, NamedValues, built, value, Context, Builder, LastUnique>>

LoopDefinition ==
  /\ pc = "loop" /\ CurTok = tok_def
  /\ \E s \in {fprintf(State, "ready> ")} :
       \E s1 \in {HandleDefinition(s)} : Becomes(s1)
  /\ UNCHANGED <<pc, toks, NamedValues, built, value, Context, Builder, LastUnique>>

LoopExtern ==
  /\ pc = "loop" /\ CurTok = tok_extern
  /\ \E s \in {fprintf(State, "ready> ")} :
       \E s1 \in {HandleExtern(s)} : Becomes(s1)
  /\ UNCHANGED <<pc, toks, NamedValues, built, value, Context, Builder, LastUnique>>

LoopTopLevelExpression ==
  /\ pc = "loop" /\ CurTok \notin {tok_eof, chSemi, tok_def, tok_extern}
  /\ \E s \in {fprintf(State, "ready> ")} :
       \E s1 \in {HandleTopLevelExpression(s)} : Becomes(s1)
  /\ UNCHANGED <<pc, toks, NamedValues, built, value, Context, Builder, LastUnique>>

Next ==
  \/ Main
  \/ LoopEof
  \/ LoopSemicolon
  \/ LoopDefinition
  \/ LoopExtern
  \/ LoopTopLevelExpression

Spec == Init /\ [][Next]_vars

(* main runs to completion: it is the only thread and every step is        *)
(* enabled until MainLoop returns.                                          *)
SpecLive == Init /\ [][Next]_vars /\ WF_vars(Next)

----------------------------------------------------------------------------
(* The tokenizer alone: gettok() called again and again on a text.          *)
InitLex == Start(LexInputs, "lex") /\ StartCodegen({Null}, {NoNames}, {"null"}, {"null"})

Gettok ==
  /\ pc = "lex" /\ Len(toks) < MaxCalls
  /\ \E s \in {gettok(State)} :
        /\ Becomes(s)
        /\ toks' = Append(toks, [tok |-> s.tok, IdentifierStr |-> s.IdentifierStr,
                                 NumVal |-> s.NumVal, start |-> s.tokStart,
                                 pos |-> s.pos, LastChar |-> s.LastChar])
  /\ UNCHANGED <<pc, NamedValues, built, value, Context, Builder, LastUnique>>

NextLex == Gettok

SpecLex == InitLex /\ [][NextLex]_vars

----------------------------------------------------------------------------
(* The code generators alone: one call of codegen() on an expression      *)
(* tree, with the globals as the source leaves them or as a caller has set *)
(* them up.                                                                 *)
GenState(ub) ==
  [NamedValues |-> NamedValues, built |-> built, out |-> out, nerr |-> nerr,
   calls |-> <<>>, Context |-> Context, Builder |-> Builder,
   LastUnique |-> LastUnique, created |-> 0, crashed |-> FALSE, ub |-> ub]

InitGen ==
  /\ Start({<<>>}, "gen")
  /\ StartCodegen(GenTrees(MaxGenOps), GenTables, {"null", "set"}, {"null", "set", "inserting"})
  /\ Context = "null" => Builder = "null"   \* an IRBuilder is made from a context

(* What undefined behaviour can do in a run from this state: something     *)
(* only when a pointer the call may dereference is null.                    *)
Outcomes == IF Context = "null" \/ Builder = "null" THEN UBOutcomes ELSE {"none"}

Codegen ==
  /\ pc = "gen"
  /\ \E ub \in Outcomes : \E g \in {codegen(GenState(ub), result)} :
        /\ NamedValues' = g.s.NamedValues
        /\ built' = g.s.built
        /\ LastUnique' = g.s.LastUnique
        /\ out' = g.s.out
        /\ nerr' = g.s.nerr
        /\ calls' = g.s.calls
        /\ value' = g.r
        /\ pc' = IF g.s.crashed THEN "killed" ELSE "emitted"
  /\ UNCHANGED <<input, pos, LastChar, IdentifierStr, NumVal, CurTok, BinopPrecedence,
                 result, tok, tokStart, curEnd, prevEnd, loopsOK, toks, Context, Builder>>

NextGen == Codegen

SpecGen == InitGen /\ [][NextGen]_vars

----------------------------------------------------------------------------
(* What the claims are measured against: definitions written from the     *)
(* grammar and the precedence table of the specification, not from the     *)
(* parser.                                                                  *)

(* The default table: < = 10, + = 20, - = 20, * = 40.                       *)
TablePrec(op) ==
  IF op = chLess THEN 10 ELSE IF op = chStar THEN 40 ELSE 20

(* In a text p0 op1 p1 ... opN pN of ExprInputs, operator k stands at      *)
(* 4k - 1 and primary k at 4k + 1.                                          *)
OpAt(txt, k) == txt[4 * k - 1]
Leaf(k) ==
  IF k % 2 = 0 THEN NumberExprAST([ip |-> k + 1, fr |-> <<>>])
  ELSE VariableExprAST(<<97 + k>>)

(* The operator that groups last among operators lo+1..hi: the rightmost   *)
(* one of the lowest precedence.                                            *)
RootOp(txt, lo, hi) ==
  CHOOSE k \in (lo + 1)..hi :
    \A j \in (lo + 1)..hi :
      /\ TablePrec(OpAt(txt, k)) <= TablePrec(OpAt(txt, j))
      /\ (j > k => TablePrec(OpAt(txt, k)) < TablePrec(OpAt(txt, j)))

RECURSIVE GroupedTree(_, _, _)
GroupedAt(txt, lo, hi, k) ==
  BinaryExprAST(OpAt(txt, k), GroupedTree(txt, lo, k - 1), GroupedTree(txt, k, hi))

GroupedTree(txt, lo, hi) ==
  IF lo = hi THEN Leaf(lo) ELSE GroupedAt(txt, lo, hi, RootOp(txt, lo, hi))

TopLevel(body) == FunctionAST(PrototypeAST(<<>>, <<>>), body)

(* C1: with the default table, the expression p0 op1 p1 ... opN pN parses  *)
(* to the tree in which a higher-precedence operator groups before a       *)
(* lower-precedence neighbour and equal precedences group to the left.      *)
C1_PrecedenceGrouping ==
  (pc = "done" /\ input \in ExprInputs)
    => result = TopLevel(GroupedTree(input, 0, (Len(input) - 1) \div 4))

(* "1 + b * 3" has been parsed to (1 + (b * 3)).                            *)
C1_Witness ==
  /\ pc = "done"
  /\ input = <<49, 32, chPlus, 32, 98, 32, chStar, 32, 51>>
  /\ result.kind = "Function"
  /\ result.Body.Op = chPlus
  /\ result.Body.RHS.kind = "Binary"
  /\ result.Body.RHS.Op = chStar

(* The tree of the well-formed definition the source texts end with.        *)
GoodDefAST ==
  FunctionAST(PrototypeAST(<<98>>, <<<<120>>>>),
              BinaryExprAST(chPlus, VariableExprAST(<<120>>),
                            NumberExprAST([ip |-> 1, fr |-> <<>>])))

EndsWith(txt, tail) ==
  Len(txt) >= Len(tail) /\ SubSeq(txt, Len(txt) - Len(tail) + 1, Len(txt)) = tail

(* C2: after a syntax error in a top-level unit, the well-formed           *)
(* "def b(x) x+1" on the next line is still parsed and reported as a       *)
(* function definition, whatever token the failed parse stopped at.         *)
C2_NextUnitParsed ==
  (pc = "done" /\ nerr > 0 /\ EndsWith(input, <<chNL>> \o GoodDef))
    => /\ result = GoodDefAST
       /\ out[Len(out) - 1] = "Parsed a function definition."

(* The reference tokenizer for positions: where the first token after     *)
(* index from begins and ends, skipping blanks and # comments.              *)
RECURSIVE CommentEnd(_, _)
CommentEnd(txt, i) ==
  IF i > Len(txt) \/ txt[i] = chNL \/ txt[i] = chCR THEN i ELSE CommentEnd(txt, i + 1)

RECURSIVE TokenBegin(_, _)
TokenBegin(txt, i) ==
  IF i > Len(txt) THEN i
  ELSE IF isspace(txt[i]) THEN TokenBegin(txt, i + 1)
  ELSE IF txt[i] = chHash THEN TokenBegin(txt, CommentEnd(txt, i))
  ELSE i

IsNumChar(c) == isdigit(c) \/ c = chDot

RECURSIVE RunEnd(_, _, _)
RunEnd(txt, i, alnum) ==
  IF i < Len(txt) /\ (IF alnum THEN isalnum(txt[i + 1]) ELSE IsNumChar(txt[i + 1]))
    THEN RunEnd(txt, i + 1, alnum)
    ELSE i

TokenEnd(txt, i) ==
  IF isalpha(txt[i]) THEN RunEnd(txt, i, TRUE)
  ELSE IF IsNumChar(txt[i]) THEN RunEnd(txt, i, FALSE)
  ELSE i

(* The last step was a handler that reported its unit as parsed.            *)
HandlerReported == calls # <<>> /\ result # Null

Min(a, b) == IF a < b THEN a ELSE b

(* C3 as stated: when a handler reports its unit as parsed, gettok has     *)
(* not read any character of the following top-level unit.                  *)
C3_NothingOfNextUnitRead ==
  (HandlerReported /\ TokenBegin(input, prevEnd + 1) <= Len(input))
    => pos < TokenBegin(input, prevEnd + 1)

LookaheadOnly(b) ==
  IF b > Len(input)
    THEN CurTok = tok_eof /\ pos = Len(input)
    ELSE /\ CurTok # tok_eof
         /\ tokStart = b
         /\ curEnd = TokenEnd(input, b)
         /\ pos = Min(TokenEnd(input, b) + 1, Len(input))

(* C3 as amended: when a handler reports its unit as parsed, gettok has    *)
(* read exactly one token past the unit's last token, the lookahead held   *)
(* in CurTok, and one pushback character after it where there is one:      *)
(* nothing further of the following input has been read.                    *)
C3_OnlyLookaheadRead ==
  HandlerReported => LookaheadOnly(TokenBegin(input, prevEnd + 1))

(* A top-level expression has been reported with "def b(x) x+1" on the     *)
(* next line: the def token is in CurTok, the blank after it is the        *)
(* pushback, and the rest of the line is unread.                            *)
C3_Witness ==
  /\ HandlerReported
  /\ result.kind = "Function"
  /\ CurTok = tok_def
  /\ LastChar = chSpace
  /\ EndsWith(input, <<chNL>> \o GoodDef)
  /\ pos = Len(input) - Len(GoodDef) + 4

(* C7: a failing call of a parse entry point returns null and writes       *)
(* exactly one diagnostic, also when the failure is in a nested            *)
(* sub-expression or call argument; a succeeding call writes none.          *)
C7_OneDiagnosticPerFailure ==
  \A i \in 1..Len(calls) :
    IF calls[i].ok THEN calls[i].nerr = 0 ELSE calls[i].nerr = 1

FailedCalls(fn) == {i \in 1..Len(calls) : calls[i].fn = fn /\ ~calls[i].ok}

(* A top-level expression failed three ParseExpression calls deep (in a    *)
(* call argument, in parentheses): four entry-point calls fail on the one  *)
(* diagnostic written so far.                                               *)
C7_Witness ==
  /\ Cardinality(FailedCalls("ParseExpression")) >= 3
  /\ FailedCalls("ParseTopLevelExpr") # {}
  /\ result = Null
  /\ nerr = 1

(* C9: on every finite input MainLoop reaches tok_eof and returns; every   *)
(* iteration of MainLoop that does not return, and every iteration of a    *)
(* loop in gettok and the parser, consumes input.                           *)
Unread ==
  (Len(input) - pos) + (IF LastChar = EOF THEN 0 ELSE 1)
                     + (IF CurTok = tok_eof THEN 0 ELSE 1)

IterationConsumes == (pc = "loop" /\ pc' = "loop") => Unread' < Unread

C9_MainLoopReturns ==
  /\ <>(pc = "done")
  /\ [][IterationConsumes]_vars
  /\ [](loopsOK)

(* The session has ended after a handler had to skip a token.               *)
C9_Witness == pc = "done" /\ nerr > 0 /\ loopsOK /\ Unread = 0

----------------------------------------------------------------------------
(* Claims about the tokenizer, over the gettok() calls observed in toks.    *)

(* C4: once gettok has returned tok_eof every later call returns tok_eof   *)
(* too, however the end of input was reached; and tok_eof is not returned  *)
(* before every character of the input has been read.                       *)
C4_EofIsFinal ==
  \A i \in 1..Len(toks) :
    toks[i].tok = tok_eof
      => /\ toks[i].pos = Len(input)
         /\ \A j \in i..Len(toks) : toks[j].tok = tok_eof

(* "x1#d": the end of input was reached at the end of a comment, and       *)
(* gettok was called again after it had returned tok_eof.                   *)
C4_Witness ==
  /\ input = <<120, 49, chHash, 100>>
  /\ Len(toks) >= 3
  /\ toks[2].tok = tok_eof
  /\ toks[3].tok = tok_eof

(* The maximal runs [A-Za-z][A-Za-z0-9]* of a text: a run begins at a      *)
(* letter that no letter precedes within the same block of letters and     *)
(* digits.  A character is in a comment from a # up to the end of line.     *)
RECURSIVE LetterBefore(_, _)
LetterBefore(txt, i) ==
  i > 1 /\ isalnum(txt[i - 1]) /\ (isalpha(txt[i - 1]) \/ LetterBefore(txt, i - 1))
BeginsRun(txt, i) == isalpha(txt[i]) /\ ~LetterBefore(txt, i)
InComment(txt, i) ==
  \E j \in 1..i : txt[j] = chHash /\ \A k \in j..i : txt[k] \notin {chNL, chCR}
AllRuns(txt) == {i \in 1..Len(txt) : BeginsRun(txt, i)}
Runs(txt) == {i \in AllRuns(txt) : ~InComment(txt, i)}
RunText(txt, i) == SubSeq(txt, i, RunEnd(txt, i, TRUE))
RunToken(str) ==
  IF str = <<100, 101, 102>> THEN tok_def
  ELSE IF str = <<101, 120, 116, 101, 114, 110>> THEN tok_extern
  ELSE tok_identifier

WordTokens == {k \in 1..Len(toks) : toks[k].tok \in {tok_def, tok_extern, tok_identifier}}
CharAfter(txt, e) == IF e < Len(txt) THEN txt[e + 1] ELSE EOF

(* Token k is the run that begins at its start: exact text, the right      *)
(* kind, and the character that ended the run kept for the next token.      *)
IsRunToken(k, e) ==
  /\ toks[k].start \in Runs(input)
  /\ toks[k].IdentifierStr = RunText(input, toks[k].start)
  /\ toks[k].tok = RunToken(RunText(input, toks[k].start))
  /\ toks[k].LastChar = CharAfter(input, e)
  /\ toks[k].pos = Min(e + 1, Len(input))
  /\ (k < Len(toks) /\ e < Len(input) /\ ~isspace(input[e + 1]) /\ input[e + 1] # chHash)
       => toks[k + 1].start = e + 1

(* gettok has returned tok_eof: it has gone through the whole input.        *)
EofReturned == \E k \in 1..Len(toks) : toks[k].tok = tok_eof

(* C5, as stated: every maximal run [A-Za-z][A-Za-z0-9]* in the input is   *)
(* returned by gettok as one token: tok_def for "def", tok_extern for      *)
(* "extern", otherwise tok_identifier with IdentifierStr the exact text of *)
(* the run; the character that ended the run is kept as pushback.  A run   *)
(* inside a comment ("#d") is never returned.                               *)
C5_EveryRunReturned ==
  EofReturned =>
    \A i \in AllRuns(input) :
      \E k \in WordTokens :
        /\ toks[k].start = i
        /\ toks[k].IdentifierStr = RunText(input, i)
        /\ toks[k].tok = RunToken(RunText(input, i))
        /\ toks[k].LastChar = CharAfter(input, RunEnd(input, i, TRUE))

(* C5, amended: every maximal run [A-Za-z][A-Za-z0-9]* of the input        *)
(* outside a comment is returned as one token: tok_def for "def",          *)
(* tok_extern for "extern", otherwise tok_identifier with IdentifierStr    *)
(* the exact text; the character that ended the run is the pushback and    *)
(* begins the next token; and no run inside a comment is returned: every   *)
(* word token is a run outside a comment.                                   *)
C5_IdentifierRuns ==
  /\ \A k \in WordTokens : IsRunToken(k, RunEnd(input, toks[k].start, TRUE))
  /\ EofReturned => \A i \in Runs(input) : \E k \in WordTokens : toks[k].start = i

(* "#d\nx1" gave the identifier x1 and then tok_eof: the run d of the      *)
(* comment was skipped, the run x1 after it returned with its exact text.   *)
C5_Witness ==
  /\ input = <<chHash, 100, chNL, 120, 49>>
  /\ Len(toks) >= 2
  /\ toks[1].tok = tok_identifier
  /\ toks[1].IdentifierStr = <<120, 49>>
  /\ toks[1].LastChar = EOF
  /\ toks[2].tok = tok_eof

(* The text with every comment deleted, from its # up to, not including,   *)
(* the next newline, carriage return or end of input.                       *)
RECURSIVE Uncommented(_, _)
Uncommented(txt, i) ==
  IF i > Len(txt) THEN <<>>
  ELSE IF txt[i] = chHash THEN Uncommented(txt, CommentEnd(txt, i))
  ELSE <<txt[i]>> \o Uncommented(txt, i + 1)

Fresh(txt) ==
  [inp |-> txt, pos |-> 0, LastChar |-> chSpace, IdentifierStr |-> <<>>,
   NumVal |-> [ip |-> 0, fr |-> <<>>], CurTok |-> 0, tok |-> 0, tokStart |-> 0,
   loopsOK |-> TRUE, NumStr |-> <<>>]

(* What a token is to the parser: its kind, and the text or value that     *)
(* goes with the kind.                                                      *)
TokenOf(r) ==
  [tok |-> r.tok,
   text |-> IF r.tok = tok_identifier THEN r.IdentifierStr ELSE <<>>,
   val |-> IF r.tok = tok_number THEN r.NumVal ELSE [ip |-> 0, fr |-> <<>>]]

(* The first n tokens gettok returns from state s on.                       *)
RECURSIVE Tokens(_, _)
Tokens(s, n) ==
  IF n = 0 THEN <<>>
  ELSE Then(gettok(s), LAMBDA s1 : <<TokenOf(s1)>> \o Tokens(s1, n - 1))

(* C6: a comment is skipped silently: the tokens gettok has returned for   *)
(* the input are the tokens it returns, call by call, for the input with   *)
(* its comments deleted.                                                    *)
C6_CommentsSkipped ==
  [k \in 1..Len(toks) |-> TokenOf(toks[k])]
    = Tokens(Fresh(Uncommented(input, 1)), Len(toks))

(* "x1#d" CR "+": the + after the comment is the second token.              *)
C6_Witness ==
  /\ input = <<120, 49, chHash, 100, chCR, chPlus>>
  /\ Len(toks) >= 3
  /\ toks[1].tok = tok_identifier
  /\ toks[2].tok = chPlus
  /\ toks[3].tok = tok_eof

----------------------------------------------------------------------------
(* Claims about code generation, over the codegen() calls observed in      *)
(* calls; the tree handed to codegen() is in result.                        *)
Unbound(c) == c.e.Name \notin DOMAIN c.before \/ c.before[c.e.Name] = Null
VariableCalls == {i \in 1..Len(calls) : calls[i].fn = "VariableExprAST::codegen"}
BinaryCalls == {i \in 1..Len(calls) : calls[i].fn = "BinaryExprAST::codegen"}

XPlusOne ==
  BinaryExprAST(chPlus, VariableExprAST(<<120>>), NumberExprAST([ip |-> 1, fr |-> <<>>]))

(* x had no binding when the emission began: it is null in the table now.   *)
XWasUnbound == <<120>> \in DOMAIN NamedValues /\ NamedValues[<<120>>] = Null

(* C8: emitting a variable that has no binding logs "Unknown variable      *)
(* name" and returns null; a binary node one of whose operands returned    *)
(* null returns null and makes no instruction; so emitting x + 1 with no   *)
(* binding for x fails with the unknown-variable error: the call returns   *)
(* null with that one line logged and nothing built.                        *)
C8_UnboundVariableFails ==
  /\ \A i \in VariableCalls :
       Unbound(calls[i]) => calls[i].r = Null /\ calls[i].nerr = 1
  /\ \A i \in BinaryCalls :
       (calls[i].L = Null \/ calls[i].R = Null) => calls[i].r = Null /\ calls[i].made = 0
  /\ (pc # "gen" /\ result = XPlusOne /\ XWasUnbound)
       => /\ pc = "emitted"
          /\ value = Null
          /\ out = <<"Error: Unknown variable name">>
          /\ built = <<>>

(* C10: a lookup during the emission of a variable never changes the       *)
(* symbol table: NamedValues holds the same names after the call as        *)
(* before, also when the lookup failed.                                     *)
C10_LookupLeavesTableUnchanged ==
  \A i \in VariableCalls : DOMAIN calls[i].after = DOMAIN calls[i].before

====
